---- MODULE Spec2Model ----
(***************************************************************************)
(* The primitive/ray intersection engine of the ray tracer                 *)
(* (src/src/hittable.rs, src/src/math.rs): per-shape hit tests, bounding   *)
(* boxes, the linear scan over a list and the BVH build and traversal.     *)
(*                                                                         *)
(* Numbers.  The program computes in f64.  The model computes in the       *)
(* integers extended with the three IEEE special values the code can       *)
(* produce by dividing by a zero direction component: +infinity,           *)
(* -infinity and NaN.  Every input the model draws is a small integer and  *)
(* the inputs are restricted (ExactOn) to those on which every square      *)
(* root and every division the code performs is exact, so that on these    *)
(* inputs integer arithmetic and f64 arithmetic give the same values.      *)
(* The sign of a zero is not modelled: a zero divisor is taken as +0.      *)
(***************************************************************************)
EXTENDS Integers, Sequences, FiniteSets, TLC

\* ------------------------------------------------------------------ f64

INFINITY == 100000000
NaN == 1000000000

IsNaN(x) == x = NaN
IsInf(x) == x = INFINITY \/ x = -INFINITY
IsFin(x) == ~IsNaN(x) /\ ~IsInf(x)

Sign(x) == IF x < 0 THEN -1 ELSE IF x > 0 THEN 1 ELSE 0

FNeg(x) == IF IsNaN(x) THEN NaN ELSE -x

FAdd(x, y) ==
    IF IsNaN(x) \/ IsNaN(y) THEN NaN
    ELSE IF IsInf(x) /\ IsInf(y) THEN (IF x = y THEN x ELSE NaN)
    ELSE IF IsInf(x) THEN x
    ELSE IF IsInf(y) THEN y
    ELSE x + y

FSub(x, y) == FAdd(x, FNeg(y))

FMul(x, y) ==
    IF IsNaN(x) \/ IsNaN(y) THEN NaN
    ELSE IF IsInf(x) \/ IsInf(y)
         THEN (IF x = 0 \/ y = 0 THEN NaN ELSE Sign(x) * Sign(y) * INFINITY)
    ELSE x * y

\* x / y.  A finite quotient is exact on the inputs the model draws.
FDiv(x, y) ==
    IF IsNaN(x) \/ IsNaN(y) THEN NaN
    ELSE IF IsInf(x) /\ IsInf(y) THEN NaN
    ELSE IF IsInf(y) THEN 0
    ELSE IF y = 0 THEN (IF x = 0 THEN NaN ELSE Sign(x) * INFINITY)
    ELSE IF IsInf(x) THEN Sign(x) * Sign(y) * INFINITY
    ELSE IF x >= 0 THEN (IF y > 0 THEN x \div y ELSE -(x \div (-y)))
    ELSE (IF y > 0 THEN -((-x) \div y) ELSE (-x) \div (-y))

\* Whether the finite quotient x / y is an integer.
DivExact(x, y) == (IsFin(x) /\ IsFin(y) /\ y # 0) => x % (IF y < 0 THEN -y ELSE y) = 0

\* The f64 comparisons: every comparison with NaN is false.
FLt(x, y) == ~IsNaN(x) /\ ~IsNaN(y) /\ x < y
FGt(x, y) == FLt(y, x)
FLe(x, y) == ~IsNaN(x) /\ ~IsNaN(y) /\ x <= y
FGe(x, y) == FLe(y, x)

\* f64::min and f64::max: of a NaN and a number, the number.
FMin(x, y) == IF IsNaN(x) THEN y ELSE IF IsNaN(y) THEN x ELSE IF x < y THEN x ELSE y
FMax(x, y) == IF IsNaN(x) THEN y ELSE IF IsNaN(y) THEN x ELSE IF x > y THEN x ELSE y

RECURSIVE RootFrom(_, _)
\* The least r' >= r with (r' + 1)^2 > x: from r = 0, the integer square
\* root of x.
RootFrom(x, r) == IF (r + 1) * (r + 1) > x THEN r ELSE RootFrom(x, r + 1)

IsSquare(x) == IsFin(x) /\ x >= 0 /\ RootFrom(x, 0) * RootFrom(x, 0) = x

\* f64::sqrt, exact on the perfect squares (the only finite arguments the
\* model's inputs produce).
FSqrt(x) ==
    IF IsNaN(x) \/ x < 0 THEN NaN
    ELSE IF x = INFINITY THEN INFINITY
    ELSE RootFrom(x, 0)

\* -------------------------------------------------------------- Vector3

Vec(x, y, z) == [x |-> x, y |-> y, z |-> z]

VAdd(u, v) == Vec(FAdd(u.x, v.x), FAdd(u.y, v.y), FAdd(u.z, v.z))
VSub(u, v) == Vec(FSub(u.x, v.x), FSub(u.y, v.y), FSub(u.z, v.z))
VNeg(u) == Vec(FNeg(u.x), FNeg(u.y), FNeg(u.z))
VScale(s, v) == Vec(FMul(v.x, s), FMul(v.y, s), FMul(v.z, s))
\* Vector3 / f64 is (1.0 / rhs) * self; for a divisor that is a power of two
\* and a quotient that is an integer this is the exact quotient.
VDiv(v, s) == Vec(FDiv(v.x, s), FDiv(v.y, s), FDiv(v.z, s))
dot(u, v) == FAdd(FAdd(FMul(u.x, v.x), FMul(u.y, v.y)), FMul(u.z, v.z))
length(v) == FSqrt(dot(v, v))
length_squared(v) == FAdd(FAdd(FMul(v.x, v.x), FMul(v.y, v.y)), FMul(v.z, v.z))

\* ------------------------------------------------------------------ Ray

Ray(origin, direction, time) == [origin |-> origin, direction |-> direction, time |-> time]
at(ray, t) == VAdd(ray.origin, VScale(t, ray.direction))

\* ----------------------------------------------------------------- AABB
\* The corners of a box are kept in units of 1/Scale, so that the padding
\* 0.0001 of a rectangle's box is the integer 1: Fix(x) is the world number
\* x in these units.

Scale == 10000
Fix(x) == FMul(x, Scale)
VFix(v) == Vec(Fix(v.x), Fix(v.y), Fix(v.z))

AABB(minimum, maximum) == [minimum |-> minimum, maximum |-> maximum]

Axis(v, a) == IF a = 0 THEN v.x ELSE IF a = 1 THEN v.y ELSE v.z

\* One slab of the ray-box test: the running interval <<t_min, t_max>>
\* intersected with the ray's interval inside the box along axis a, swapped
\* when the direction component is negative.
Slab(box, ray, a, iv) ==
    LET d == Axis(ray.direction, a)
        o == Fix(Axis(ray.origin, a))
        ta == FDiv(FSub(Axis(box.minimum, a), o), d)
        tb == FDiv(FSub(Axis(box.maximum, a), o), d)
        t0 == IF FLt(d, 0) THEN tb ELSE ta
        t1 == IF FLt(d, 0) THEN ta ELSE tb
    IN  << IF FGt(t0, iv[1]) THEN t0 ELSE iv[1],
           IF FLt(t1, iv[2]) THEN t1 ELSE iv[2] >>

Empty(iv) == FLt(iv[2], iv[1])

aabb_hit(box, ray, t_min, t_max) ==
    LET i0 == Slab(box, ray, 0, <<Fix(t_min), Fix(t_max)>>)
        i1 == Slab(box, ray, 1, i0)
        i2 == Slab(box, ray, 2, i1)
    IN  ~Empty(i0) /\ ~Empty(i1) /\ ~Empty(i2)

surrounding_box(a, b) ==
    AABB(Vec(FMin(a.minimum.x, b.minimum.x), FMin(a.minimum.y, b.minimum.y),
             FMin(a.minimum.z, b.minimum.z)),
         Vec(FMax(a.maximum.x, b.maximum.x), FMax(a.maximum.y, b.maximum.y),
             FMax(a.maximum.z, b.maximum.z)))

\* ------------------------------------------------------------ HitRecord

None == <<>>
Some(v) == <<v>>
IsSome(o) == Len(o) = 1
Get(o) == o[1]

\* The fields u and v of the record (texture coordinates) are left out: no
\* operation of this module reads them.
HitRecord(point, normal, t, front_face, mat_handle) ==
    [point |-> point, normal |-> normal, t |-> t,
     front_face |-> front_face, mat_handle |-> mat_handle]

set_face_normal(rec, ray, outward_normal) ==
    LET front_face == FLt(dot(ray.direction, outward_normal), 0)
    IN  [rec EXCEPT !.front_face = front_face,
                    !.normal = IF front_face THEN outward_normal
                               ELSE VNeg(outward_normal)]

\* ------------------------------------------------------------- Hittable
\* The variants of the enum, as records tagged by kind.

Sphere(mat_handle, center, radius) ==
    [kind |-> "Sphere", mat_handle |-> mat_handle, center |-> center, radius |-> radius]

MovingSphere(mat_handle, center_0, center_1, time_0, time_1, radius) ==
    [kind |-> "MovingSphere", mat_handle |-> mat_handle, center_0 |-> center_0,
     center_1 |-> center_1, time_0 |-> time_0, time_1 |-> time_1, radius |-> radius]

BvhNode(left, right, aabb_box) ==
    [kind |-> "BvhNode", left |-> left, right |-> right, aabb_box |-> aabb_box]

\* XYRect, XZRect and YZRect: a and b are the two in-plane axes in the order
\* of the variant's fields (x then y, x then z, y then z).
Rect(kind, mat_handle, a0, a1, b0, b1, k) ==
    [kind |-> kind, mat_handle |-> mat_handle, a0 |-> a0, a1 |-> a1,
     b0 |-> b0, b1 |-> b1, k |-> k]

Translate(offset, ptr) == [kind |-> "Translate", offset |-> offset, ptr |-> ptr]

RotateY(sin_theta, cos_theta, has_box, bbox, ptr) ==
    [kind |-> "RotateY", sin_theta |-> sin_theta, cos_theta |-> cos_theta,
     has_box |-> has_box, bbox |-> bbox, ptr |-> ptr]

ConstantMedium(phase_function, boundary, neg_inv_density) ==
    [kind |-> "ConstantMedium", phase_function |-> phase_function, boundary |-> boundary,
     neg_inv_density |-> neg_inv_density]

new_constant_medium(hittable, d, mat_handle) ==
    ConstantMedium(mat_handle, hittable, FDiv(-1, d))

new_box(min, max, mat_handle) ==
    [kind |-> "Box", mat_handle |-> mat_handle, min |-> min, max |-> max,
     sides |-> << Rect("XYRect", mat_handle, min.x, max.x, min.y, max.y, max.z),
                  Rect("XYRect", mat_handle, min.x, max.x, min.y, max.y, min.z),
                  Rect("XZRect", mat_handle, min.x, max.x, min.z, max.z, max.y),
                  Rect("XZRect", mat_handle, min.x, max.x, min.z, max.z, min.y),
                  Rect("YZRect", mat_handle, min.y, max.y, min.z, max.z, max.x),
                  Rect("YZRect", mat_handle, min.y, max.y, min.z, max.z, min.x) >>]

\* ------------------------------------------------------------------ hit

get_center_at_time(center_0, center_1, time_0, time_1, time) ==
    VAdd(center_0,
         VScale(FDiv(FSub(time, time_0), FSub(time_1, time_0)), VSub(center_1, center_0)))

\* sphere_hit with its two roots taken in the other order, the larger one
\* first: a variant of the code the properties of the sphere must tell apart.
SphereRootsSwapped(center, radius, ray) ==
    LET oc == VSub(ray.origin, center)
        a == length_squared(ray.direction)
        half_b == dot(oc, ray.direction)
        c == FSub(length_squared(oc), FMul(radius, radius))
        discriminant == FSub(FMul(half_b, half_b), FMul(a, c))
        sqrtd == FSqrt(discriminant)
    IN  IF FLt(discriminant, 0) THEN <<>>
        ELSE << FDiv(FAdd(FNeg(half_b), sqrtd), a), FDiv(FSub(FNeg(half_b), sqrtd), a) >>

\* (-half_b - sqrtd) / a and (-half_b + sqrtd) / a.
RootPair(a, half_b, sqrtd) ==
    << FDiv(FSub(FNeg(half_b), sqrtd), a), FDiv(FAdd(FNeg(half_b), sqrtd), a) >>

RootsOf(a, half_b, discriminant) ==
    IF FLt(discriminant, 0) THEN <<>> ELSE RootPair(a, half_b, FSqrt(discriminant))

\* The roots of a*t^2 + 2*half_b*t + c, by the discriminant half_b^2 - a*c.
Solve(a, half_b, c) == RootsOf(a, half_b, FSub(FMul(half_b, half_b), FMul(a, c)))

\* The two roots of the sphere's quadratic, or <<>> when the discriminant
\* is negative.
SphereRoots(center, radius, ray) ==
    Solve(length_squared(ray.direction),
          dot(VSub(ray.origin, center), ray.direction),
          FSub(length_squared(VSub(ray.origin, center)), FMul(radius, radius)))

OutOfRange(root, t_min, t_max) == FLt(root, t_min) \/ FLt(t_max, root)

\* The record of the sphere's hit at the point of the ray at root.
SphereRecord(point, root, center, radius, ray, mat_handle) ==
    Some(set_face_normal(HitRecord(point, Vec(0, 0, 0), root, FALSE, mat_handle),
                         ray, VDiv(VSub(point, center), radius)))

\* The smaller root when it lies in the range, else the larger one when
\* that does, else none.
SphereHitAt(roots, center, radius, ray, t_min, t_max, mat_handle) ==
    IF roots = <<>> THEN None
    ELSE IF ~OutOfRange(roots[1], t_min, t_max)
    THEN SphereRecord(at(ray, roots[1]), roots[1], center, radius, ray, mat_handle)
    ELSE IF ~OutOfRange(roots[2], t_min, t_max)
    THEN SphereRecord(at(ray, roots[2]), roots[2], center, radius, ray, mat_handle)
    ELSE None

sphere_hit(center, radius, ray, t_min, t_max, mat_handle) ==
    SphereHitAt(SphereRoots(center, radius, ray), center, radius, ray, t_min, t_max,
                mat_handle)

\* xy_rect_hit, xz_rect_hit and yz_rect_hit: n is the axis of the plane's
\* normal, a and b the in-plane axes.
RectAxes(kind) ==
    IF kind = "XYRect" THEN <<2, 0, 1>>
    ELSE IF kind = "XZRect" THEN <<1, 0, 2>>
    ELSE <<0, 1, 2>>

UnitAxis(n) == Vec(IF n = 0 THEN 1 ELSE 0, IF n = 1 THEN 1 ELSE 0, IF n = 2 THEN 1 ELSE 0)

\* The hit of the rectangle h by the ray that crosses its plane at t, at
\* the in-plane coordinates a and b; n is the axis of the plane's normal.
RectHitAt(h, ray, t_min, t_max, t, a, b, n) ==
    IF FLt(t, t_min) \/ FGt(t, t_max) THEN None
    ELSE IF FLt(a, h.a0) \/ FGt(a, h.a1) \/ FLt(b, h.b0) \/ FGt(b, h.b1) THEN None
    ELSE Some(set_face_normal(
             HitRecord(at(ray, t), Vec(0, 0, 0), t, FALSE, h.mat_handle),
             ray, UnitAxis(n)))

RectCross(h, ray, t_min, t_max, t, ax) ==
    RectHitAt(h, ray, t_min, t_max, t,
              FAdd(Axis(ray.origin, ax[2]), FMul(t, Axis(ray.direction, ax[2]))),
              FAdd(Axis(ray.origin, ax[3]), FMul(t, Axis(ray.direction, ax[3]))),
              ax[1])

RectOn(h, ray, t_min, t_max, ax) ==
    RectCross(h, ray, t_min, t_max,
              FDiv(FSub(h.k, Axis(ray.origin, ax[1])), Axis(ray.direction, ax[1])), ax)

rect_hit(h, ray, t_min, t_max) == RectOn(h, ray, t_min, t_max, RectAxes(h.kind))

\* The random source is state the hit of a ConstantMedium reads.
VARIABLE
    ln_draw     \* f64::ln(random_double()) of the draw the source makes next, if known

RECURSIVE hit(_, _, _, _)
RECURSIVE Scan(_, _, _, _, _)

\* One iteration of the loop of hit_hittables: a hit of the member becomes
\* the record kept and its t the upper bound.
Keep(prev, record) ==
    IF IsSome(record) THEN [closest_so_far |-> Get(record).t, rec |-> record] ELSE prev

ScanMember(hittable, ray, t_min, prev) ==
    Keep(prev, hit(hittable, ray, t_min, prev.closest_so_far))

\* The loop of hit_hittables after its first n iterations: the running
\* upper bound and the record kept so far.
Scan(hittables, ray, t_min, t_max, n) ==
    IF n = 0 THEN [closest_so_far |-> t_max, rec |-> None]
    ELSE ScanMember(hittables[n], ray, t_min, Scan(hittables, ray, t_min, t_max, n - 1))

hit_hittables(hittables, ray, t_min, t_max) ==
    Scan(hittables, ray, t_min, t_max, Len(hittables)).rec

OrElse(a, b) == IF IsSome(a) THEN a ELSE b

\* The right child asked after the left one: up to the left hit's t when
\* there is one.
HitRight(hit_left, right, ray, t_min, t_max) ==
    IF IsSome(hit_left)
    THEN OrElse(hit(right, ray, t_min, Get(hit_left).t), hit_left)
    ELSE hit(right, ray, t_min, t_max)

\* The children asked whether or not the ray meets the node's box: a
\* variant of the code the properties of the traversal must tell apart.
BvhNodeHitUnpruned(left, right, aabb, ray, t_min, t_max) ==
    HitRight(hit(left, ray, t_min, t_max), right, ray, t_min, t_max)

bvh_node_hit(left, right, aabb, ray, t_min, t_max) ==
    IF ~aabb_hit(aabb, ray, t_min, t_max) THEN None
    ELSE HitRight(hit(left, ray, t_min, t_max), right, ray, t_min, t_max)

MovedRay(offset, ray) == Ray(VSub(ray.origin, offset), ray.direction, ray.time)

\* The inner hit moved back: the point shifted by the offset, and
\* set_face_normal called with the moved ray and the record's own normal.
TranslateBack(inner, offset, moved_ray) ==
    IF IsSome(inner)
    THEN Some(set_face_normal([Get(inner) EXCEPT !.point = VAdd(@, offset)],
                              moved_ray, Get(inner).normal))
    ELSE None

TranslateOn(offset, ptr, moved_ray, t_min, t_max) ==
    TranslateBack(hit(ptr, moved_ray, t_min, t_max), offset, moved_ray)

translate_hit(offset, ptr, ray, t_min, t_max) ==
    TranslateOn(offset, ptr, MovedRay(offset, ray), t_min, t_max)

\* hit_rotate_y's rotation of the ray with a sign slipped in the z
\* component of the origin: a variant of the code the properties of the
\* wrappers must tell apart.
RotatedRaySignSlip(sin_theta, cos_theta, ray) ==
    LET origin == Vec(
            FSub(FMul(cos_theta, ray.origin.x), FMul(sin_theta, ray.origin.z)),
            ray.origin.y,
            FAdd(FMul(FNeg(sin_theta), ray.origin.x), FMul(cos_theta, ray.origin.z)))
        direction == Vec(
            FSub(FMul(cos_theta, ray.direction.x), FMul(sin_theta, ray.direction.z)),
            ray.direction.y,
            FAdd(FMul(sin_theta, ray.direction.x), FMul(cos_theta, ray.direction.z)))
    IN  Ray(origin, direction, ray.time)

RotatedRay(sin_theta, cos_theta, ray) ==
    LET origin == Vec(
            FSub(FMul(cos_theta, ray.origin.x), FMul(sin_theta, ray.origin.z)),
            ray.origin.y,
            FAdd(FMul(sin_theta, ray.origin.x), FMul(cos_theta, ray.origin.z)))
        direction == Vec(
            FSub(FMul(cos_theta, ray.direction.x), FMul(sin_theta, ray.direction.z)),
            ray.direction.y,
            FAdd(FMul(sin_theta, ray.direction.x), FMul(cos_theta, ray.direction.z)))
    IN  Ray(origin, direction, ray.time)

\* The vector v of the rotated frame in the frame of the caller.
RotateBack(sin_theta, cos_theta, v) ==
    Vec(FAdd(FMul(cos_theta, v.x), FMul(sin_theta, v.z)),
        v.y,
        FAdd(FMul(FNeg(sin_theta), v.x), FMul(cos_theta, v.z)))

\* The inner hit rotated back: point and normal in the caller's frame, and
\* set_face_normal called with the rotated ray and that normal.
RotateYBack(inner, sin_theta, cos_theta, rotated_ray) ==
    IF IsSome(inner)
    THEN Some(set_face_normal(
             [Get(inner) EXCEPT !.point = RotateBack(sin_theta, cos_theta, @)],
             rotated_ray, RotateBack(sin_theta, cos_theta, Get(inner).normal)))
    ELSE None

RotateYOn(sin_theta, cos_theta, ptr, rotated_ray, t_min, t_max) ==
    RotateYBack(hit(ptr, rotated_ray, t_min, t_max), sin_theta, cos_theta, rotated_ray)

hit_rotate_y(sin_theta, cos_theta, ptr, ray, t_min, t_max) ==
    RotateYOn(sin_theta, cos_theta, ptr, RotatedRay(sin_theta, cos_theta, ray),
              t_min, t_max)

\* rec1.t + 0.0001 in the model's units.  The distances of the model's
\* crossings are integers, and a crossing at t passes the lower bound
\* t1 + 0.0001 exactly when it passes t1 + Nudge.
Nudge == 1

\* The record of a scattering at hit_distance along the ray from t1.
MediumRecord(t, ray, phase_function) ==
    HitRecord(at(ray, t), Vec(1, 0, 0), t, TRUE, phase_function)

\* hit_distance against the distance inside the boundary.
MediumSample(t1, t2, ray_length, hit_distance, ray, phase_function) ==
    IF FGt(hit_distance, FMul(FSub(t2, t1), ray_length)) THEN None
    ELSE Some(MediumRecord(FAdd(t1, FDiv(hit_distance, ray_length)), ray, phase_function))

\* The clamped distances t1 and t2: none when they leave no interval, and
\* t1 raised to 0 after that test.
MediumInside(t1, t2, ray, neg_inv_density, phase_function) ==
    IF FGe(t1, t2) THEN None
    ELSE MediumSample(IF FLt(t1, 0) THEN 0 ELSE t1, t2, length(ray.direction),
                      FMul(neg_inv_density, Get(ln_draw)), ray, phase_function)

\* rec1.t clamped to t_min from below, rec2.t to t_max from above.
MediumClamp(t1, t2, ray, t_min, t_max, neg_inv_density, phase_function) ==
    MediumInside(IF FLt(t1, t_min) THEN t_min ELSE t1, IF FGt(t2, t_max) THEN t_max ELSE t2,
                 ray, neg_inv_density, phase_function)

MediumThrough(rec1, rec2, ray, t_min, t_max, neg_inv_density, phase_function) ==
    IF IsSome(rec2)
    THEN MediumClamp(Get(rec1).t, Get(rec2).t, ray, t_min, t_max, neg_inv_density,
                     phase_function)
    ELSE None

MediumEntered(rec1, boundary, ray, t_min, t_max, neg_inv_density, phase_function) ==
    IF IsSome(rec1)
    THEN MediumThrough(rec1, hit(boundary, ray, FAdd(Get(rec1).t, Nudge), INFINITY), ray,
                       t_min, t_max, neg_inv_density, phase_function)
    ELSE None

hit_constant_medium(boundary, phase_function, neg_inv_density, ray, t_min, t_max) ==
    MediumEntered(hit(boundary, ray, FNeg(INFINITY), INFINITY), boundary, ray, t_min, t_max,
                  neg_inv_density, phase_function)

hit(h, ray, t_min, t_max) ==
    CASE h.kind = "Sphere" ->
            sphere_hit(h.center, h.radius, ray, t_min, t_max, h.mat_handle)
      [] h.kind = "MovingSphere" ->
            sphere_hit(get_center_at_time(h.center_0, h.center_1, h.time_0, h.time_1, ray.time),
                       h.radius, ray, t_min, t_max, h.mat_handle)
      [] h.kind = "BvhNode" ->
            bvh_node_hit(h.left, h.right, h.aabb_box, ray, t_min, t_max)
      [] h.kind \in {"XYRect", "XZRect", "YZRect"} ->
            rect_hit(h, ray, t_min, t_max)
      [] h.kind = "Box" ->
            hit_hittables(h.sides, ray, t_min, t_max)
      [] h.kind = "Translate" ->
            translate_hit(h.offset, h.ptr, ray, t_min, t_max)
      [] h.kind = "RotateY" ->
            hit_rotate_y(h.sin_theta, h.cos_theta, h.ptr, ray, t_min, t_max)
      [] h.kind = "ConstantMedium" ->
            hit_constant_medium(h.boundary, h.phase_function, h.neg_inv_density, ray,
                                t_min, t_max)

\* --------------------------------------------------------- bounding_box

VecAll(r) == Vec(r, r, r)

sphere_bounding_box(center, radius) ==
    Some(AABB(VFix(VSub(center, VecAll(radius))), VFix(VAdd(center, VecAll(radius)))))

moving_sphere_bounding_box(center_0, center_1, radius, time_0, time_1) ==
    LET c0 == get_center_at_time(center_0, center_1, time_0, time_1, time_0)
        c1 == get_center_at_time(center_0, center_1, time_0, time_1, time_1)
        box0 == AABB(VFix(VSub(c0, VecAll(radius))), VFix(VAdd(c0, VecAll(radius))))
        box1 == AABB(VFix(VSub(c1, VecAll(radius))), VFix(VAdd(c1, VecAll(radius))))
    IN  Some(surrounding_box(box0, box1))

\* The box of a rectangle: its extent in the plane, and 0.0001 (one unit of
\* 1/Scale) on either side of the plane.
rect_bounding_box(h) ==
    LET lo == FSub(Fix(h.k), 1)
        hi == FAdd(Fix(h.k), 1)
    IN  IF h.kind = "XYRect"
        THEN Some(AABB(Vec(Fix(h.a0), Fix(h.b0), lo), Vec(Fix(h.a1), Fix(h.b1), hi)))
        ELSE IF h.kind = "XZRect"
        THEN Some(AABB(Vec(Fix(h.a0), lo, Fix(h.b0)), Vec(Fix(h.a1), hi, Fix(h.b1))))
        ELSE Some(AABB(Vec(lo, Fix(h.a0), Fix(h.b0)), Vec(hi, Fix(h.a1), Fix(h.b1))))

RECURSIVE bounding_box(_, _, _)

translate_bounding_box(offset, ptr, time_0, time_1) ==
    LET inner == bounding_box(ptr, time_0, time_1)
    IN  IF IsSome(inner)
        THEN Some(AABB(VAdd(Get(inner).minimum, VFix(offset)),
                       VAdd(Get(inner).maximum, VFix(offset))))
        ELSE None

\* The arm of a MovingSphere binds time_0 and time_1 to the sphere's own
\* fields, which hide the two arguments of bounding_box.
bounding_box(h, time_0, time_1) ==
    CASE h.kind = "Sphere" -> sphere_bounding_box(h.center, h.radius)
      [] h.kind = "MovingSphere" ->
            moving_sphere_bounding_box(h.center_0, h.center_1, h.radius, h.time_0, h.time_1)
      [] h.kind = "BvhNode" -> Some(h.aabb_box)
      [] h.kind \in {"XYRect", "XZRect", "YZRect"} -> rect_bounding_box(h)
      [] h.kind = "Box" -> Some(AABB(VFix(h.min), VFix(h.max)))
      [] h.kind = "Translate" -> translate_bounding_box(h.offset, h.ptr, time_0, time_1)
      [] h.kind = "RotateY" -> IF h.has_box THEN Some(h.bbox) ELSE None
      [] h.kind = "ConstantMedium" -> bounding_box(h.boundary, time_0, time_1)

RECURSIVE LastBox(_, _, _, _)
\* The loop of hittables_bounding_box over the first n members: none as
\* soon as a member has no box, else the value of final_box.
LastBox(hittables, time_0, time_1, n) ==
    IF n = 0 THEN [returned |-> FALSE, final_box |-> None]
    ELSE LET prev == LastBox(hittables, time_0, time_1, n - 1)
             b == bounding_box(hittables[n], time_0, time_1)
         IN  IF prev.returned THEN prev
             ELSE IF IsSome(b) THEN [returned |-> FALSE, final_box |-> b]
             ELSE [returned |-> TRUE, final_box |-> None]

hittables_bounding_box(hittables, time_0, time_1) ==
    IF Len(hittables) = 0 THEN None
    ELSE LastBox(hittables, time_0, time_1, Len(hittables)).final_box

ZeroBox == AABB(Vec(0, 0, 0), Vec(0, 0, 0))

\* ----------------------------------------------------------- new_rotate_y
\* The sine and the cosine of the angle are taken as given (the code
\* computes them from the angle in degrees): the model draws the quarter
\* turns, whose sine and cosine are integers.

Corner(aabb, i, j, k) ==
    Vec(FAdd(FMul(i, aabb.maximum.x), FMul(1 - i, aabb.minimum.x)),
        FAdd(FMul(j, aabb.maximum.y), FMul(1 - j, aabb.minimum.y)),
        FAdd(FMul(k, aabb.maximum.z), FMul(1 - k, aabb.minimum.z)))

Tester(sin_theta, cos_theta, c) ==
    Vec(FAdd(FMul(cos_theta, c.x), FMul(sin_theta, c.z)),
        c.y,
        FAdd(FMul(FNeg(sin_theta), c.x), FMul(cos_theta, c.z)))

RECURSIVE FoldMin(_, _, _)
FoldMin(testers, a, n) ==
    IF n = 0 THEN INFINITY ELSE FMin(FoldMin(testers, a, n - 1), Axis(testers[n], a))

RECURSIVE FoldMax(_, _, _)
FoldMax(testers, a, n) ==
    IF n = 0 THEN -INFINITY ELSE FMax(FoldMax(testers, a, n - 1), Axis(testers[n], a))

\* The RotateY recorded without a box whatever its child reports: a variant
\* of the code the properties of bounding_box must tell apart.
NewRotateYWithoutBox(sin_theta, cos_theta, hittable) ==
    RotateY(sin_theta, cos_theta, FALSE, ZeroBox, hittable)

new_rotate_y(sin_theta, cos_theta, hittable) ==
    LET b == bounding_box(hittable, 0, 1)
        has_box == IsSome(b)
        aabb == IF has_box THEN Get(b) ELSE ZeroBox
        testers == [n \in 1..8 |->
                      Tester(sin_theta, cos_theta,
                             Corner(aabb, (n - 1) \div 4, ((n - 1) \div 2) % 2, (n - 1) % 2))]
    IN  RotateY(sin_theta, cos_theta, has_box,
                AABB(Vec(FoldMin(testers, 0, 8), FoldMin(testers, 1, 8), FoldMin(testers, 2, 8)),
                     Vec(FoldMax(testers, 0, 8), FoldMax(testers, 1, 8), FoldMax(testers, 2, 8))),
                hittable)

\* ----------------------------------------------------------- new_bvh_node

\* AABB::box_x_compare, box_y_compare and box_z_compare (axis 0, 1, 2): the
\* order of two primitives by the minimum corner of their boxes along the
\* axis, a primitive without a box standing as the zero box.
Ordering(ma, mb) == IF ma < mb THEN "Less" ELSE IF ma = mb THEN "Equal" ELSE "Greater"

BoxOrZero(b) == IF IsSome(b) THEN Get(b) ELSE ZeroBox

box_compare(a, b, axis) ==
    Ordering(Axis(BoxOrZero(bounding_box(a, 0, 0)).minimum, axis),
             Axis(BoxOrZero(bounding_box(b, 0, 0)).minimum, axis))

\* The comparator chosen by the drawn axis: 0 is x, 1 is y, anything else z.
Comparator(axis) == IF axis = 0 THEN 0 ELSE IF axis = 1 THEN 1 ELSE 2

RECURSIVE InsertSorted(_, _, _)
\* x put into the sorted sequence s behind every element that is not
\* greater than it.
InsertSorted(s, x, axis) ==
    IF s = <<>> THEN <<x>>
    ELSE IF box_compare(s[Len(s)], x, axis) = "Greater"
         THEN Append(InsertSorted(SubSeq(s, 1, Len(s) - 1), x, axis), s[Len(s)])
         ELSE Append(s, x)

RECURSIVE StableSort(_, _)
StableSort(s, axis) ==
    IF s = <<>> THEN <<>>
    ELSE InsertSorted(StableSort(SubSeq(s, 1, Len(s) - 1), axis), s[Len(s)], axis)

\* cpy[start..end].sort_by(comparator): the slice sorted (sort_by is
\* stable), the rest of the list as it was.  Indices count from 0 as in
\* the code; the sequence is indexed from 1.
sort_by(cpy, start, end, axis) ==
    SubSeq(cpy, 1, start) \o StableSort(SubSeq(cpy, start + 1, end), axis)
        \o SubSeq(cpy, end + 1, Len(cpy))

UnionOrZero(box_left, box_right) ==
    IF IsSome(box_left) /\ IsSome(box_right)
    THEN surrounding_box(Get(box_left), Get(box_right))
    ELSE ZeroBox

\* The box of a new node computed with the zero box only when neither
\* child has a box, the box of the one child standing in otherwise: a
\* variant of the code the properties of the build must tell apart.
NodeBoxEitherChild(left, right, time_0, time_1) ==
    LET box_left == bounding_box(left, time_0, time_1)
        box_right == bounding_box(right, time_0, time_1)
    IN  IF IsSome(box_left) /\ IsSome(box_right)
        THEN surrounding_box(Get(box_left), Get(box_right))
        ELSE IF IsSome(box_left) THEN Get(box_left)
        ELSE IF IsSome(box_right) THEN Get(box_right)
        ELSE ZeroBox

\* The box of a new node: the union of the children's boxes, or the zero
\* box when a child has none.
NodeBox(left, right, time_0, time_1) ==
    UnionOrZero(bounding_box(left, time_0, time_1), bounding_box(right, time_0, time_1))

RECURSIVE BvhSpans(_, _)
\* The spans of the calls of a build of list[start..end] that use their
\* comparator (a call on a span of one primitive draws an axis and never
\* uses it).
BvhSpans(start, end) ==
    IF end - start < 2 THEN {}
    ELSE IF end - start = 2 THEN {<<start, end>>}
    ELSE LET mid == start + (end - start) \div 2
         IN  {<<start, end>>} \cup BvhSpans(start, mid) \cup BvhSpans(mid, end)

\* random_int_range(0, 2) is random_double_range(0.0, 3.0) cut to an
\* integer, and the range of random_double_range includes its upper end.
AxisDraws == 0..3

\* The node over two children, with its box.
NodeOver(left, right, time_0, time_1) ==
    BvhNode(left, right, NodeBox(left, right, time_0, time_1))

\* A span of two primitives: the first one left when the comparator puts
\* it before the second, else the second one left.
NodeOfTwo(first, second, axis, time_0, time_1) ==
    IF box_compare(first, second, axis) = "Less"
    THEN NodeOver(first, second, time_0, time_1)
    ELSE NodeOver(second, first, time_0, time_1)

RECURSIVE new_bvh_node(_, _, _, _, _, _)

\* A longer span: the nodes built over the two halves of the sorted copy.
NodeOfHalves(cpy, start, mid, end, time_0, time_1, axes) ==
    NodeOver(new_bvh_node(cpy, start, mid, time_0, time_1, axes),
             new_bvh_node(cpy, mid, end, time_0, time_1, axes), time_0, time_1)

\* axes[<<start, end>>] is the axis drawn by the call on list[start..end].
new_bvh_node(list, start, end, time_0, time_1, axes) ==
    IF end - start = 1
    THEN NodeOver(list[start + 1], list[start + 1], time_0, time_1)
    ELSE IF end - start = 2
    THEN NodeOfTwo(list[start + 1], list[start + 2], Comparator(axes[<<start, end>>]),
                   time_0, time_1)
    ELSE NodeOfHalves(sort_by(list, start, end, Comparator(axes[<<start, end>>])),
                      start, start + (end - start) \div 2, end, time_0, time_1, axes)

\* ------------------------------------------------------------ the inputs
\* The model draws small integer scenes and rays.  ExactOn(h, ray) says
\* that the f64 arithmetic of hit(h, ray, ..) is exact on them: every
\* direction component is -1, 0 or 1, the sphere's discriminant is a
\* perfect square and its roots and unit normals are integers.

DirExact(ray) ==
    /\ \A a \in 0..2 : Axis(ray.direction, a) \in {-1, 0, 1}
    /\ ray.direction # Vec(0, 0, 0)

\* The root numerator / a is an integer, and so is the unit normal at it.
RootExact(numerator, a, center, radius, ray) ==
    /\ DivExact(numerator, a)
    /\ \A i \in 0..2 : DivExact(Axis(VSub(at(ray, FDiv(numerator, a)), center), i), radius)

QuadraticExact(a, half_b, discriminant, center, radius, ray) ==
    /\ IsFin(discriminant)
    /\ discriminant >= 0 =>
        /\ IsSquare(discriminant)
        /\ \A numerator \in {FSub(FNeg(half_b), FSqrt(discriminant)),
                             FAdd(FNeg(half_b), FSqrt(discriminant))} :
            RootExact(numerator, a, center, radius, ray)

DiscriminantExact(a, half_b, c, center, radius, ray) ==
    QuadraticExact(a, half_b, FSub(FMul(half_b, half_b), FMul(a, c)), center, radius, ray)

SphereExact(center, radius, ray) ==
    /\ radius \in {1, 2, 4}
    /\ DiscriminantExact(length_squared(ray.direction),
                         dot(VSub(ray.origin, center), ray.direction),
                         FSub(length_squared(VSub(ray.origin, center)), FMul(radius, radius)),
                         center, radius, ray)

RECURSIVE ExactOn(_, _)
ExactOn(h, ray) ==
    /\ DirExact(ray)
    /\ CASE h.kind = "Sphere" -> SphereExact(h.center, h.radius, ray)
         [] h.kind = "MovingSphere" ->
               /\ h.time_0 < h.time_1
               /\ DivExact(ray.time - h.time_0, h.time_1 - h.time_0)
               /\ SphereExact(get_center_at_time(h.center_0, h.center_1, h.time_0,
                                                 h.time_1, ray.time),
                              h.radius, ray)
         [] h.kind = "BvhNode" -> ExactOn(h.left, ray) /\ ExactOn(h.right, ray)
         [] h.kind = "Translate" -> ExactOn(h.ptr, MovedRay(h.offset, ray))
         [] h.kind = "RotateY" -> ExactOn(h.ptr, RotatedRay(h.sin_theta, h.cos_theta, ray))
         [] h.kind = "ConstantMedium" ->
               /\ IsSome(ln_draw)
               /\ IsSquare(length_squared(ray.direction))
               /\ ExactOn(h.boundary, ray)
         [] OTHER -> TRUE

RECURSIVE Depth(_)
\* The number of wrappers around a primitive.
Depth(h) ==
    IF h.kind \in {"Translate", "RotateY"} THEN 1 + Depth(h.ptr)
    ELSE IF h.kind = "ConstantMedium" THEN 1 + Depth(h.boundary)
    ELSE 0

RECURSIVE HasMedium(_)
\* A ConstantMedium is the primitive or one of its wrappers.
HasMedium(h) ==
    IF h.kind \in {"Translate", "RotateY"} THEN HasMedium(h.ptr)
    ELSE h.kind = "ConstantMedium"

MaxLen == 3
MaxDepth == 2

UnitSphere == Sphere(1, Vec(0, 0, 0), 1)

Spheres == {UnitSphere, Sphere(2, Vec(0, 0, 0), 2)}
MovingSpheres == {MovingSphere(3, Vec(4, 0, 0), Vec(2, 0, 0), 0, 1, 1)}
Rects == {Rect("XYRect", 4, -1, 1, -1, 1, 0), Rect("XZRect", 5, -1, 1, -1, 1, 0),
          Rect("YZRect", 6, -1, 1, -1, 1, 1)}
Boxes == {new_box(Vec(-2, -1, -2), Vec(1, 1, 0), 7)}

ShapePrims == Spheres \cup MovingSpheres \cup Rects \cup Boxes

Offsets == {Vec(1, 0, 1), Vec(-1, 0, -1)}
\* <<sin_theta, cos_theta>> of a quarter turn and of its inverse.
Turns == {<<1, 0>>, <<-1, 0>>}

ShapeRays ==
    {Ray(Vec(ox, oy, oz), d, time) :
        ox \in {-5, 0}, oy \in {-5, 0}, oz \in {-5, 0},
        d \in {Vec(1, 0, 0), Vec(-1, 0, 0), Vec(0, 1, 0), Vec(0, -1, 0),
               Vec(0, 0, 1), Vec(0, 0, -1), Vec(1, 0, 1), Vec(-1, 0, -1)},
        time \in {0, 2}}

\* The densities d of new_constant_medium.
Densities == {1}

\* The values f64::ln takes on a draw of random_double(), which lies in
\* [0,1): minus infinity at 0, and negative everywhere else.
LnDraws == {FNeg(INFINITY), -1, -3}

\* <<t_min, t_max>>
Ranges == {<<0, INFINITY>>, <<4, 5>>}

\* <<time_0, time_1>>
TimeSpans == {<<0, 1>>, <<0, 2>>}

\* A RotateY built directly as the variant, with has_box false: the one
\* primitive whose bounding_box is none.
Unboxed == RotateY(0, 1, FALSE, ZeroBox, Sphere(8, Vec(0, 0, -3), 1))

ScenePrims ==
    {UnitSphere, Rect("XYRect", 4, -1, 1, -1, 1, 0), Rect("YZRect", 6, -1, 1, -1, 1, 0),
     Unboxed} \cup MovingSpheres

SceneRays ==
    {Ray(od[1], od[2], time) :
        od \in {<<Vec(-5, 0, 0), Vec(1, 0, 0)>>, <<Vec(0, 0, -5), Vec(0, 0, 1)>>,
                <<Vec(-5, 0, -5), Vec(1, 0, 1)>>, <<Vec(0, 0, 0), Vec(1, 0, 0)>>},
        time \in {0, 2}}

\* <<time_0, time_1>> of the build: the interval the rays' times lie in.
Shutter == <<0, 2>>

\* ------------------------------------------------------------- the state

VARIABLES
    hittables,  \* the list of primitives assembled
    root,       \* the node built over the list by new_bvh_node, once built
    ray,        \* the ray of the query
    t_min,      \* the range of the query
    t_max,
    rec,        \* the result of hit or hit_hittables for the query
    rec_bvh,    \* the result of the node's hit for the query
    times,      \* <<time_0, time_1>> of the bounding_box or build call
    bbox,       \* the result of bounding_box or hittables_bounding_box
    args,       \* the arguments of the new_bvh_node call followed call by call
    calls,      \* its stack of calls, the innermost last
    pc          \* what has been called so far

vars == <<hittables, root, ray, t_min, t_max, rec, rec_bvh, times, bbox, args, calls, ln_draw, pc>>

NoRay == Ray(Vec(0, 0, 0), Vec(0, 0, 0), 0)

NoCall == [list |-> <<>>, start |-> 0, end |-> 0]

Fresh ==
    /\ root = None
    /\ ray = NoRay
    /\ t_min = 0
    /\ t_max = 0
    /\ rec = None
    /\ rec_bvh = None
    /\ times = <<0, 0>>
    /\ bbox = None
    /\ args = NoCall
    /\ calls = <<>>
    /\ ln_draw = None
    /\ pc = "assemble"

\* ----------------------------------------------- one primitive: SpecShape

\* A primitive made by a builder or as a variant, the RotateY variant with
\* has_box false among them.
InitShape ==
    /\ hittables \in {<<p>> : p \in ShapePrims \cup {Unboxed}}
    /\ Fresh

WrapTranslate(offset) ==
    /\ pc = "assemble"
    /\ Depth(hittables[1]) < MaxDepth
    /\ hittables' = <<Translate(offset, hittables[1])>>
    /\ UNCHANGED <<root, ray, t_min, t_max, rec, rec_bvh, times, bbox, pc, args, calls, ln_draw>>

WrapRotateY(turn) ==
    /\ pc = "assemble"
    /\ Depth(hittables[1]) < MaxDepth
    /\ hittables' = <<new_rotate_y(turn[1], turn[2], hittables[1])>>
    /\ UNCHANGED <<root, ray, t_min, t_max, rec, rec_bvh, times, bbox, pc, args, calls, ln_draw>>

\* A medium around the shape.  One draw is followed per query, so a medium
\* is not put around a shape that holds one already.
WrapMedium(d) ==
    /\ pc = "assemble"
    /\ Depth(hittables[1]) < MaxDepth
    /\ ~HasMedium(hittables[1])
    /\ hittables' = <<new_constant_medium(hittables[1], d, 9)>>
    /\ UNCHANGED <<root, ray, t_min, t_max, rec, rec_bvh, times, bbox, pc, args, calls, ln_draw>>

\* The random source comes to stand before a draw whose logarithm is ln_u.
Seed(ln_u) ==
    /\ pc = "assemble"
    /\ HasMedium(hittables[1])
    /\ ln_draw = None
    /\ ln_draw' = Some(ln_u)
    /\ UNCHANGED <<hittables, root, ray, t_min, t_max, rec, rec_bvh, times, bbox, pc, args, calls>>

Hit(r, range) ==
    /\ pc = "assemble"
    /\ ExactOn(hittables[1], r)
    /\ ray' = r
    /\ t_min' = range[1]
    /\ t_max' = range[2]
    /\ rec' = hit(hittables[1], r, range[1], range[2])
    /\ pc' = "hit"
    /\ UNCHANGED <<hittables, root, rec_bvh, times, bbox, args, calls, ln_draw>>

BoundingBox(span) ==
    /\ pc = "assemble"
    /\ times' = span
    /\ bbox' = bounding_box(hittables[1], span[1], span[2])
    /\ pc' = "box"
    /\ UNCHANGED <<hittables, root, ray, t_min, t_max, rec, rec_bvh, args, calls, ln_draw>>

NextShape ==
    \/ \E offset \in Offsets : WrapTranslate(offset)
    \/ \E turn \in Turns : WrapRotateY(turn)
    \/ \E d \in Densities : WrapMedium(d)
    \/ \E ln_u \in LnDraws : Seed(ln_u)
    \/ \E r \in ShapeRays, range \in Ranges : Hit(r, range)
    \/ \E span \in TimeSpans : BoundingBox(span)

SpecShape == InitShape /\ [][NextShape]_vars

\* ------------------------------------------------- a list and its tree: Spec

Init ==
    /\ hittables = <<>>
    /\ Fresh

Push(p) ==
    /\ pc = "assemble"
    /\ Len(hittables) < MaxLen
    /\ hittables' = Append(hittables, p)
    /\ UNCHANGED <<root, ray, t_min, t_max, rec, rec_bvh, times, bbox, pc, args, calls, ln_draw>>

ListBoundingBox(span) ==
    /\ pc = "assemble"
    /\ times' = span
    /\ bbox' = hittables_bounding_box(hittables, span[1], span[2])
    /\ pc' = "box"
    /\ UNCHANGED <<hittables, root, ray, t_min, t_max, rec, rec_bvh, args, calls, ln_draw>>

Build(axes) ==
    /\ pc = "assemble"
    /\ Len(hittables) >= 1
    /\ times' = Shutter
    /\ root' = Some(new_bvh_node(hittables, 0, Len(hittables), Shutter[1], Shutter[2], axes))
    /\ pc' = "built"
    /\ UNCHANGED <<hittables, ray, t_min, t_max, rec, rec_bvh, bbox, args, calls, ln_draw>>

HitList(r, range) ==
    /\ pc = "built"
    /\ \A i \in 1..Len(hittables) : ExactOn(hittables[i], r)
    /\ ray' = r
    /\ t_min' = range[1]
    /\ t_max' = range[2]
    /\ rec' = hit_hittables(hittables, r, range[1], range[2])
    /\ pc' = "scanned"
    /\ UNCHANGED <<hittables, root, rec_bvh, times, bbox, args, calls, ln_draw>>

HitBvh ==
    /\ pc = "scanned"
    /\ rec_bvh' = hit(Get(root), ray, t_min, t_max)
    /\ pc' = "done"
    /\ UNCHANGED <<hittables, root, ray, t_min, t_max, rec, times, bbox, args, calls, ln_draw>>

Next ==
    \/ \E p \in ScenePrims : Push(p)
    \/ \E span \in TimeSpans : ListBoundingBox(span)
    \/ \E axes \in [BvhSpans(0, Len(hittables)) -> AxisDraws] : Build(axes)
    \/ \E r \in SceneRays, range \in Ranges : HitList(r, range)
    \/ HitBvh

Spec == Init /\ [][Next]_vars

\* ------------------------------- new_bvh_node, call by call: SpecBuild
\* The build of Spec is one step, and its operator is defined only where
\* the recursion ends.  Here every call of new_bvh_node is a frame of the
\* stack, with its own copy of the list it was given, and the recursion is
\* followed however deep it goes, up to MaxCalls frames.

MaxCalls == 4

BuildPrims == Spheres \cup MovingSpheres

\* A call of new_bvh_node(list, start, end, ..) at its entry: cpy is its
\* clone of the list, at is where the call stands, left the node its first
\* recursive call returned, node the node it returns.
Frame(list, start, end) ==
    [cpy |-> list, start |-> start, end |-> end, at |-> "entry", left |-> None,
     node |-> None]

Top == calls[Len(calls)]
Callers == SubSeq(calls, 1, Len(calls) - 1)

Mid(frame) == frame.start + (frame.end - frame.start) \div 2

Call(start, end) ==
    /\ pc = "assemble"
    /\ args' = [list |-> hittables, start |-> start, end |-> end]
    /\ calls' = <<Frame(hittables, start, end)>>
    /\ times' = Shutter
    /\ pc' = "building"
    /\ UNCHANGED <<hittables, root, ray, t_min, t_max, rec, rec_bvh, bbox, ln_draw>>

\* The node of a call on a span of one or of two primitives.
NodeOfFew(frame, axis) ==
    IF frame.end - frame.start = 1
    THEN NodeOver(frame.cpy[frame.start + 1], frame.cpy[frame.start + 1],
                  times[1], times[2])
    ELSE NodeOfTwo(frame.cpy[frame.start + 1], frame.cpy[frame.start + 2],
                   Comparator(axis), times[1], times[2])

\* object_span is 1 or 2: the call makes its node out of the primitives.
Finish(axis) ==
    /\ pc = "building"
    /\ Top.at = "entry"
    /\ Top.end - Top.start \in {1, 2}
    /\ calls' = Append(Callers, [Top EXCEPT !.at = "return",
                                            !.node = Some(NodeOfFew(Top, axis))])
    /\ UNCHANGED <<hittables, root, ray, t_min, t_max, rec, rec_bvh, times, bbox, args, pc, ln_draw>>

\* The first recursive call made on the list as it was before the sort: a
\* variant of the code the properties of the build must tell apart.
SplitIntoUnsortedHalf(callers, frame, sorted) ==
    callers \o <<[frame EXCEPT !.cpy = sorted, !.at = "left"],
                 Frame(frame.cpy, frame.start, Mid(frame))>>

\* The frame after the sort, and the first recursive call it makes.
SplitInto(callers, frame, sorted) ==
    callers \o <<[frame EXCEPT !.cpy = sorted, !.at = "left"],
                 Frame(sorted, frame.start, Mid(frame))>>

\* Any other object_span: the call sorts its span of the copy and calls
\* itself on the first half.
Split(axis) ==
    /\ pc = "building"
    /\ Top.at = "entry"
    /\ Top.end - Top.start \notin {1, 2}
    /\ Len(calls) < MaxCalls
    /\ calls' = SplitInto(Callers, Top,
                          sort_by(Top.cpy, Top.start, Top.end, Comparator(axis)))
    /\ UNCHANGED <<hittables, root, ray, t_min, t_max, rec, rec_bvh, times, bbox, args, pc, ln_draw>>

\* The caller once a recursive call has returned node: after the first it
\* calls itself on the second half, after the second it has its own node.
Resume(callers, caller, node) ==
    IF caller.at = "left"
    THEN callers \o <<[caller EXCEPT !.at = "right", !.left = node],
                      Frame(caller.cpy, Mid(caller), caller.end)>>
    ELSE Append(callers,
                [caller EXCEPT !.at = "return",
                               !.node = Some(NodeOver(Get(caller.left), Get(node),
                                                      times[1], times[2]))])

\* A call returns its node, to its caller or as the result of the build.
Return ==
    /\ pc = "building"
    /\ Top.at = "return"
    /\ IF Len(calls) = 1
       THEN /\ calls' = <<>>
            /\ root' = Top.node
            /\ pc' = "returned"
       ELSE /\ calls' = Resume(SubSeq(calls, 1, Len(calls) - 2), calls[Len(calls) - 1],
                               Top.node)
            /\ UNCHANGED <<root, pc, ln_draw>>
    /\ UNCHANGED <<hittables, ray, t_min, t_max, rec, rec_bvh, times, bbox, args, ln_draw>>

NextBuild ==
    \/ \E p \in BuildPrims : Push(p)
    \/ \E start \in 0..Len(hittables) : \E end \in start..Len(hittables) : Call(start, end)
    \/ \E axis \in AxisDraws : Finish(axis)
    \/ \E axis \in AxisDraws : Split(axis)
    \/ Return

SpecBuild == Init /\ [][NextBuild]_vars

\* ---------------------------------------------------------- the properties
\* C2, C5, C6, C7, C8, C10, C13 and C15 are about one primitive
\* (SpecShape); C1, C3, C4, C9 and C12 about a list and the tree built over
\* it (Spec); C11 and C14 about the build followed call by call (SpecBuild).

\* The primitive the queries of SpecShape are made on.
Shape == hittables[1]

Lower(a, b) == IF a < b THEN a ELSE b
Upper(a, b) == IF a > b THEN a ELSE b

\* Two results agree: both none, or both a hit with the same t, point and
\* normal.
SameHit(a, b) ==
    /\ IsSome(a) = IsSome(b)
    /\ IsSome(a) =>
        /\ Get(a).t = Get(b).t
        /\ Get(a).point = Get(b).point
        /\ Get(a).normal = Get(b).normal

\* C1: for every list, every axes drawn by the build, every ray and range,
\* the traversal of the tree built over the list and the linear scan of the
\* list agree: one returns a hit iff the other does, and the two hits have
\* the same t, point and normal.
C1_BvhAgreesWithScan == pc = "done" => SameHit(rec, rec_bvh)

\* The variants that are neither a wrapper nor a node.
Plain == {"Sphere", "MovingSphere", "XYRect", "XZRect", "YZRect", "Box"}

\* C2: every hit returned by a Sphere, MovingSphere, XYRect, XZRect, YZRect
\* or Box has t_min < t <= t_max: t lies in the half-open interval
\* (t_min, t_max], and a crossing at t = t_min is not returned.
C2_HitInHalfOpenRange ==
    (pc = "hit" /\ Shape.kind \in Plain /\ IsSome(rec)) =>
        FLt(t_min, Get(rec).t) /\ FLe(Get(rec).t, t_max)

\* The hit of the i-th member of the list, asked on its own with the range
\* of the query.
MemberHit(i) == hit(hittables[i], ray, t_min, t_max)
MemberHits == {i \in 1..Len(hittables) : IsSome(MemberHit(i))}

\* The upper bound hit_hittables passes to its n-th member.
BoundPassed(n) == Scan(hittables, ray, t_min, t_max, n - 1).closest_so_far

\* C3: hit_hittables returns none iff no member has a hit in the range;
\* otherwise it returns a hit whose t is the minimum of the members' t; and
\* the upper bound passed to a member is never greater than the bound
\* passed to a member before it.
C3_ScanReturnsNearest ==
    pc \in {"scanned", "done"} =>
        /\ (rec = None) <=> (MemberHits = {})
        /\ IsSome(rec) =>
            /\ \E i \in MemberHits : Get(rec).t = Get(MemberHit(i)).t
            /\ \A i \in MemberHits : FLe(Get(rec).t, Get(MemberHit(i)).t)
        /\ \A n \in 1..Len(hittables) : \A m \in 1..n :
            ~FGt(BoundPassed(n), BoundPassed(m))

RECURSIVE UnionOfBoxes(_, _, _, _)
\* The componentwise minimum of the minimum corners and maximum of the
\* maximum corners of the boxes of the first n members (each has a box).
UnionOfBoxes(list, time_0, time_1, n) ==
    LET b == Get(bounding_box(list[n], time_0, time_1))
    IN  IF n = 1 THEN b
        ELSE LET u == UnionOfBoxes(list, time_0, time_1, n - 1)
             IN  AABB(Vec(Lower(u.minimum.x, b.minimum.x), Lower(u.minimum.y, b.minimum.y),
                          Lower(u.minimum.z, b.minimum.z)),
                      Vec(Upper(u.maximum.x, b.maximum.x), Upper(u.maximum.y, b.maximum.y),
                          Upper(u.maximum.z, b.maximum.z)))

\* C4: hittables_bounding_box returns none when the list is empty or a
\* member has no box, and otherwise the union of the boxes of all the
\* members.
C4_ListBoxIsUnion ==
    pc = "box" =>
        bbox = IF \/ Len(hittables) = 0
                  \/ \E i \in 1..Len(hittables) :
                        bounding_box(hittables[i], times[1], times[2]) = None
               THEN None
               ELSE Some(UnionOfBoxes(hittables, times[1], times[2], Len(hittables)))

\* C5: the normal of every hit, of a plain primitive or of one wrapped in
\* Translate and RotateY to any depth, points against the ray the caller
\* passed: dot(ray.direction, normal) <= 0.
C5_NormalOpposesRay ==
    (pc = "hit" /\ IsSome(rec)) => FLe(dot(ray.direction, Get(rec).normal), 0)

\* C6: a hit returned through a Translate has the front_face the wrapped
\* primitive reports for the ray shifted by the offset.
C6_TranslateKeepsFrontFace ==
    (pc = "hit" /\ Shape.kind = "Translate" /\ IsSome(rec)) =>
        LET inner == hit(Shape.ptr, MovedRay(Shape.offset, ray), t_min, t_max)
        IN  IsSome(inner) /\ Get(rec).front_face = Get(inner).front_face

\* The box b lies inside the box a.
Contains(a, b) ==
    \A i \in 0..2 : /\ Axis(a.minimum, i) <= Axis(b.minimum, i)
                    /\ Axis(b.maximum, i) <= Axis(a.maximum, i)

\* C7: the box bounding_box(time_0, time_1) returns for a MovingSphere
\* contains the sphere, centred where it is at time t, for every t of the
\* interval [time_0, time_1] the caller passed.
C7_MovingBoxCoversInterval ==
    (pc = "box" /\ Shape.kind = "MovingSphere") =>
        /\ IsSome(bbox)
        /\ \A t \in times[1]..times[2] :
            Contains(Get(bbox),
                     Get(sphere_bounding_box(
                         get_center_at_time(Shape.center_0, Shape.center_1,
                                            Shape.time_0, Shape.time_1, t),
                         Shape.radius)))

\* The discriminant half_b^2 - a*c of the quadratic of a sphere and a ray.
Discriminant(center, radius, r) ==
    LET oc == VSub(r.origin, center)
    IN  FSub(FMul(dot(oc, r.direction), dot(oc, r.direction)),
             FMul(length_squared(r.direction),
                  FSub(length_squared(oc), FMul(radius, radius))))

\* The parameters at which the ray r crosses the sphere, found on the
\* geometry: the point of the ray at t lies at the distance radius from the
\* center.  Every crossing of the rays and spheres drawn lies in the window.
Window == -20..20
Crossings(center, radius, r) ==
    {t \in Window : length_squared(VSub(at(r, t), center)) = radius * radius}

Least(S) == CHOOSE t \in S : \A u \in S : t <= u

\* C8: the hit of a Sphere is none when the discriminant is negative;
\* otherwise it is the smaller root of the quadratic when that lies in the
\* range [t_min, t_max], else the larger root when that does, else none.
\* For the unit sphere at the origin and the ray from (0,0,-5) along
\* (0,0,1) it is t = 4, point (0,0,-1), normal (0,0,-1), front_face true,
\* with the material handle of the sphere.
C8_SphereRootSelection ==
    (pc = "hit" /\ Shape.kind = "Sphere") =>
        LET crossings == Crossings(Shape.center, Shape.radius, ray)
            in_range == {t \in crossings : t_min <= t /\ t <= t_max}
        IN  /\ Discriminant(Shape.center, Shape.radius, ray) < 0 => rec = None
            /\ Discriminant(Shape.center, Shape.radius, ray) >= 0 =>
                /\ crossings # {}
                /\ in_range = {} => rec = None
                /\ in_range # {} => IsSome(rec) /\ Get(rec).t = Least(in_range)
            /\ ( /\ Shape = UnitSphere
                 /\ ray.origin = Vec(0, 0, -5)
                 /\ ray.direction = Vec(0, 0, 1) ) =>
                    rec = Some(HitRecord(Vec(0, 0, -1), Vec(0, 0, -1), 4, TRUE,
                                         UnitSphere.mat_handle))

\* A sphere was hit at its larger root: the smaller root lies below the
\* range.
C8_LargerRootReturned ==
    /\ pc = "hit"
    /\ Shape.kind = "Sphere"
    /\ IsSome(rec)
    /\ \E t \in Crossings(Shape.center, Shape.radius, ray) : t < Get(rec).t /\ t < t_min

RECURSIVE Nodes(_)
\* The nodes of a tree.
Nodes(h) ==
    IF h.kind = "BvhNode" THEN {h} \cup Nodes(h.left) \cup Nodes(h.right) ELSE {}

RECURSIVE Leaves(_)
\* The primitives a tree holds.
Leaves(h) ==
    IF h.kind = "BvhNode" THEN Leaves(h.left) \cup Leaves(h.right) ELSE {h}

\* box is the union of the boxes a and b.
IsUnionOf(box, a, b) ==
    \A i \in 0..2 :
        /\ Axis(box.minimum, i) = Lower(Axis(a.minimum, i), Axis(b.minimum, i))
        /\ Axis(box.maximum, i) = Upper(Axis(a.maximum, i), Axis(b.maximum, i))

\* A node one of whose children has no box.
Boxless(n) ==
    \/ bounding_box(n.left, times[1], times[2]) = None
    \/ bounding_box(n.right, times[1], times[2]) = None

\* C9: the build returns a tree that holds every primitive of the list,
\* also when a child of a node has no box: the box of such a node is the
\* box with both corners at (0,0,0), and the box of a node whose children
\* both have a box is the union of the two.
C9_NodeBoxOrZeroBox ==
    pc \in {"built", "scanned", "done"} =>
        /\ IsSome(root)
        /\ Get(root).kind = "BvhNode"
        /\ Leaves(Get(root)) = {hittables[i] : i \in 1..Len(hittables)}
        /\ \A n \in Nodes(Get(root)) :
            IF Boxless(n)
            THEN n.aabb_box = AABB(Vec(0, 0, 0), Vec(0, 0, 0))
            ELSE IsUnionOf(n.aabb_box,
                           Get(bounding_box(n.left, times[1], times[2])),
                           Get(bounding_box(n.right, times[1], times[2])))

\* A tree was built with a node over a primitive that has a box and one
\* that has none.
C9_BuiltOverBoxlessChild ==
    /\ pc = "built"
    /\ \E n \in Nodes(Get(root)) :
        /\ Boxless(n)
        /\ IsSome(bounding_box(n.left, times[1], times[2]))
             # IsSome(bounding_box(n.right, times[1], times[2]))
        /\ n.aabb_box = ZeroBox

\* A wrapper around its inverse around a primitive.
IsRoundTrip(h) ==
    \/ /\ h.kind = "Translate"
       /\ h.ptr.kind = "Translate"
       /\ h.offset = VNeg(h.ptr.offset)
    \/ /\ h.kind = "RotateY"
       /\ h.ptr.kind = "RotateY"
       /\ h.sin_theta = FNeg(h.ptr.sin_theta)
       /\ h.cos_theta = h.ptr.cos_theta

\* C10: Translate by -v around Translate by v, and RotateY by -theta around
\* RotateY by theta (a quarter turn), around a primitive return a hit iff
\* the primitive alone does, with the same t and the same point.
C10_InverseWrappersCancel ==
    (pc = "hit" /\ IsRoundTrip(Shape)) =>
        LET bare == hit(Shape.ptr.ptr, ray, t_min, t_max)
        IN  /\ IsSome(rec) = IsSome(bare)
            /\ IsSome(rec) =>
                /\ Get(rec).t = Get(bare).t
                /\ Get(rec).point = Get(bare).point

\* A primitive inside a quarter turn and its inverse was hit away from the
\* axis of the rotation.
C10_RoundTripHit ==
    /\ pc = "hit"
    /\ IsRoundTrip(Shape)
    /\ Shape.kind = "RotateY"
    /\ IsSome(rec)
    /\ IsFin(Get(rec).t)
    /\ Get(rec).point.x # 0

RECURSIVE LeafSeq(_, _)
\* The leaves, left to right, of a tree that was built over a span of n
\* primitives; the node over a span of one holds its primitive as both
\* children and gives it once.
LeafSeq(h, n) ==
    IF n = 1 THEN (IF h.left = h.right THEN <<h.left>> ELSE <<h.left, h.right>>)
    ELSE IF n = 2 THEN <<h.left, h.right>>
    ELSE LeafSeq(h.left, n \div 2) \o LeafSeq(h.right, n - n \div 2)

Count(s, x) == Cardinality({i \in 1..Len(s) : s[i] = x})

\* s holds the members of t, each as often as t does.
SameMembers(s, t) ==
    /\ Len(s) = Len(t)
    /\ \A i \in 1..Len(t) : Count(s, t[i]) = Count(t, t[i])

\* C11: for every list and every span 0 <= start < end <= len, the leaves
\* of the tree new_bvh_node returns are exactly the primitives
\* list[start..end]: each primitive of the span is a leaf as often as it is
\* in the span, nothing else is a leaf, and a node over a span of one
\* primitive has that primitive as both children; the caller's list is as
\* it was before the call.
C11_LeavesAreTheSpan ==
    pc = "returned" =>
        /\ SameMembers(LeafSeq(Get(root), args.end - args.start),
                       SubSeq(args.list, args.start + 1, args.end))
        /\ hittables = args.list

\* A tree was returned for a span of three primitives, and the sort moved
\* the span's first primitive out of first place.
C11_BuiltOverSortedSpan ==
    /\ pc = "returned"
    /\ args.end - args.start = 3
    /\ Get(root).left.left # args.list[args.start + 1]

\* C14: new_bvh_node terminates for every span 0 <= start <= end <= len,
\* the empty span included, because every recursive call is made on a
\* strictly smaller span than its caller's.
C14_CallsOnSmallerSpans ==
    \A i \in 2..Len(calls) :
        calls[i].end - calls[i].start < calls[i - 1].end - calls[i - 1].start

\* Every primitive of the list reports a bounding box.
AllBoxed == \A i \in 1..Len(hittables) : IsSome(bounding_box(hittables[i], times[1], times[2]))

\* The ray of the query misses the box in [t_min, t_max].
Misses(box) == ~aabb_hit(box, ray, t_min, t_max)

\* C12: in every tree built from primitives that all report a bounding
\* box, the aabb_box of every node contains the bounding box of every leaf
\* of the node's subtree, and the hit of a node returns none, whatever its
\* children would return, whenever the ray misses the node's aabb_box in
\* [t_min, t_max].
C12_BoxesContainLeavesAndPrune ==
    (pc \in {"built", "scanned", "done"} /\ AllBoxed) =>
        \A n \in Nodes(Get(root)) :
            /\ \A l \in Leaves(n) :
                Contains(n.aabb_box, Get(bounding_box(l, times[1], times[2])))
            /\ (pc = "done" /\ Misses(n.aabb_box)) => hit(n, ray, t_min, t_max) = None

\* A tree over three boxed primitives was asked with a ray that misses the
\* root's box and returned none, though the scan of the list found a hit:
\* no child was asked.
C12_PrunedThoughAChildIsHit ==
    /\ pc = "done"
    /\ AllBoxed
    /\ Len(hittables) = 3
    /\ Misses(Get(root).aabb_box)
    /\ IsSome(rec)
    /\ rec_bvh = None

\* The boundary's hit over the unrestricted range, and its hit from just
\* past the distance of that one.
Entry == hit(Shape.boundary, ray, FNeg(INFINITY), INFINITY)
Exit == hit(Shape.boundary, ray, FAdd(Get(Entry).t, Nudge), INFINITY)

\* t lies in [max(entry, t_min, 0), min(exit, t_max)].
InClampedInterval(t, entry, exit) ==
    /\ FLe(entry, t)
    /\ FLe(t_min, t)
    /\ FLe(0, t)
    /\ FLe(t, exit)
    /\ FLe(t, t_max)

\* C13: for a ConstantMedium of positive density and every draw of the
\* random source, hit returns none when the boundary is not crossed twice,
\* and a record it returns has max(entry, t_min, 0) <= t <= min(exit, t_max)
\* for the boundary's two hit distances entry and exit (so none is
\* returned when that interval is empty), the normal (1,0,0), front_face
\* true and the medium's phase-function material handle.
C13_MediumHitInClampedInterval ==
    (pc = "hit" /\ Shape.kind = "ConstantMedium" /\ FLt(Shape.neg_inv_density, 0)) =>
        IF IsSome(Entry) /\ IsSome(Exit)
        THEN IsSome(rec) =>
                /\ InClampedInterval(Get(rec).t, Get(Entry).t, Get(Exit).t)
                /\ Get(rec).normal = Vec(1, 0, 0)
                /\ Get(rec).front_face
                /\ Get(rec).mat_handle = Shape.phase_function
        ELSE rec = None

RECURSIVE BuilderMade(_)
\* Every RotateY of the nest is what new_rotate_y returns for its child.
BuilderMade(h) ==
    CASE h.kind = "RotateY" ->
            h = new_rotate_y(h.sin_theta, h.cos_theta, h.ptr) /\ BuilderMade(h.ptr)
      [] h.kind = "Translate" -> BuilderMade(h.ptr)
      [] h.kind = "ConstantMedium" -> BuilderMade(h.boundary)
      [] OTHER -> TRUE

\* bounding_box returned a box for the shape, and so does
\* hittables_bounding_box for the list of it, and the node new_bvh_node
\* builds over it does not take the missing-box fallback.
BoxReported ==
    /\ IsSome(bbox)
    /\ IsSome(hittables_bounding_box(hittables, times[1], times[2]))
    /\ ~Boxless(new_bvh_node(hittables, 0, 1, times[1], times[2], <<>>))

\* C15 as stated: for every Hittable assembled through the variant
\* constructors and the builders, at any nesting depth, bounding_box returns
\* a box and never none, so that new_bvh_node never takes its missing-box
\* fallback and hittables_bounding_box returns none only for the empty list.
C15_BoundingBoxNeverNone == pc = "box" => BoxReported

\* C15, amended: the same for every Hittable whose RotateY nodes are all
\* made by new_rotate_y (the Sphere, MovingSphere, rectangle, Translate and
\* ConstantMedium variants, new_box, new_rotate_y and new_constant_medium,
\* nested to any depth); a RotateY variant constructed with has_box false,
\* and every wrapper around one, reports none.
C15_BuilderMadeHaveBox == (pc = "box" /\ BuilderMade(Shape)) => BoxReported

\* bounding_box was called on a RotateY made by new_rotate_y around a
\* ConstantMedium, and returned a box.
C15_BoxOfRotatedMedium ==
    /\ pc = "box"
    /\ BuilderMade(Shape)
    /\ Shape.kind = "RotateY"
    /\ Shape.ptr.kind = "ConstantMedium"
    /\ IsSome(bbox)

====
